---- MODULE Spec2Model ----
(***************************************************************************)
(* Model of flowpaths.multigraphdecomposer.MultiGraphDecomposer:           *)
(* a MultiDiGraph is turned into a DiGraph by routing every second and     *)
(* later parallel edge through a freshly named node, and two dictionaries  *)
(* translate edges and paths between both graphs.                          *)
(*                                                                         *)
(* A node id is a Python string, modelled as the sequence of its           *)
(* characters, so that the f-string of line 44 is a concatenation and the  *)
(* test `"_split_" in x` is a substring search.                            *)
(***************************************************************************)
EXTENDS Integers, Sequences, FiniteSets, TLC

VARIABLES original_graph, split_graph, edge_mapping, reverse_edge_mapping,
          phase, call, ret

vars == <<original_graph, split_graph, edge_mapping, reverse_edge_mapping,
          phase, call, ret>>

---------------------------------------------------------------------------
(* Bounds of the model *)

\* Largest number of edges of the input multigraph.
MaxEdges == 3

\* Largest number of nodes of a path given to convert_path_to_original.
MaxPathLen == 4

\* Largest number of edges of a set given to get_ignore_split_edges.
MaxIgnore == 1

---------------------------------------------------------------------------
(* Python strings *)

\* The literal "_split_" of lines 44, 92, 104, 143 and 168.
SplitMarker == <<"_", "s", "p", "l", "i", "t", "_">>

Underscore == <<"_">>

DigitChars == <<"0", "1", "2", "3", "4", "5", "6", "7", "8", "9">>

\* str(n) of a non-negative int, as the f-string of line 44 formats it.
RECURSIVE IntToStr(_)
IntToStr(n) ==
    IF n < 10 THEN <<DigitChars[n + 1]>>
    ELSE IntToStr(n \div 10) \o <<DigitChars[(n % 10) + 1]>>

\* `sub in s` of two Python strings.
StrContains(sub, s) ==
    \E i \in 1..(Len(s) - Len(sub) + 1) : SubSeq(s, i, i + Len(sub) - 1) = sub

\* `"_split_" in x`, the only test the code has for "x is a split node".
HasSplitMarker(x) == StrContains(SplitMarker, x)

\* f"{u}_{v}_split_{n}" of line 44.
SplitNodeName(u, v, n) == u \o Underscore \o v \o SplitMarker \o IntToStr(n)

---------------------------------------------------------------------------
(* Python dictionaries, as functions *)

EmptyDict == [x \in {} |-> {}]

\* d[k] = val
DictSet(d, k, val) == [x \in (DOMAIN d) \cup {k} |-> IF x = k THEN val ELSE d[x]]

\* None, and the marker of an attribute that a data dict does not hold.
None == <<"None">>

NoAttr == "absent"

---------------------------------------------------------------------------
(* The input multigraph *)

NodeA == <<"A">>

NodeB == <<"B">>

NodeC == <<"C">>

\* A caller's node whose id has the shape of a split node's name.
NodeAB1 == <<"A", "_", "B", "_", "s", "p", "l", "i", "t", "_", "1">>

\* The ordered pairs an input edge may join.
EdgePairs == {<<NodeA, NodeB>>, <<NodeB, NodeC>>, <<NodeA, NodeAB1>>, <<NodeAB1, NodeB>>}

\* The attribute dicts an input edge may carry: the required flow and one
\* optional further attribute.
DataChoices == {[flow |-> 5, ext |-> NoAttr], [flow |-> 3, ext |-> "x"]}

\* MultiDiGraph.edges() enumerates node by node and, for a node, neighbour
\* by neighbour: the edges of one source are contiguous, and so are the
\* parallel edges of one pair.
Grouped(ps) ==
    \A i, j, k \in 1..Len(ps) :
        (i < j /\ j < k) =>
            /\ (ps[i][1] = ps[k][1] => ps[j][1] = ps[i][1])
            /\ (ps[i] = ps[k] => ps[j] = ps[i])

\* The key networkx gives an edge added without one: the number of edges
\* the pair already has.
AutoKey(ps, i) == Cardinality({j \in 1..(i - 1) : ps[j] = ps[i]})

MakeEdges(ps, ds) ==
    [i \in 1..Len(ps) |->
        [u |-> ps[i][1], v |-> ps[i][2], key |-> AutoKey(ps, i), data |-> ds[i]]]

NodesOf(edges) ==
    {edges[i].u : i \in 1..Len(edges)} \cup {edges[i].v : i \in 1..Len(edges)}

InputGraphs ==
    UNION {
        {[nodes |-> NodesOf(MakeEdges(ps, ds)), edges |-> MakeEdges(ps, ds)] :
            ps \in {q \in [1..n -> EdgePairs] : Grouped(q)},
            ds \in [1..n -> DataChoices]} :
        n \in 0..MaxEdges}

---------------------------------------------------------------------------
(* _create_split_graph *)

EmptyGraph == [nodes |-> {}, edges |-> EmptyDict]

\* DiGraph.has_edge(u, v)
HasEdge(g, u, v) == <<u, v>> \in DOMAIN g.edges

\* DiGraph.add_node(n)
AddNode(g, n) == [g EXCEPT !.nodes = @ \cup {n}]

\* The attribute dict of an edge after add_edge(u, v, **data): a new edge
\* gets data, an edge that exists has its dict updated with data.
UpdatedData(old, data) ==
    [flow |-> data.flow, ext |-> IF data.ext # NoAttr THEN data.ext ELSE old.ext]

\* DiGraph.add_edge(u, v, **data); it adds the end nodes that are missing.
AddEdge(g, u, v, data) ==
    [nodes |-> g.nodes \cup {u, v},
     edges |-> DictSet(g.edges, <<u, v>>,
                       IF HasEdge(g, u, v) THEN UpdatedData(g.edges[<<u, v>>], data)
                       ELSE data)]

\* Lines 55-56: zero_flow_data is a copy of data with flow set to 0; data,
\* the dict of the original edge, is left as it was.
ZeroFlowData(data) == [zero_flow_data |-> [data EXCEPT !.flow = 0], data |-> data]

\* A count that starts at the first split node of a pair and not at its
\* first edge.
ReverseLenLessOne(rem, u, v) ==
    IF <<u, v>> \in DOMAIN rem THEN Cardinality(DOMAIN rem[<<u, v>>]) - 1 ELSE 0

\* len(self.reverse_edge_mapping[(u, v)]) of line 44; the defaultdict answers
\* a missing pair with an empty dict.
ReverseLen(rem, u, v) ==
    IF <<u, v>> \in DOMAIN rem THEN Cardinality(DOMAIN rem[<<u, v>>]) ELSE 0

\* self.reverse_edge_mapping[(u, v)][key] = val
ReverseSet(rem, u, v, key, val) ==
    DictSet(rem, <<u, v>>,
            DictSet(IF <<u, v>> \in DOMAIN rem THEN rem[<<u, v>>] ELSE EmptyDict, key, val))

\* One turn of the loop of lines 40-64, for the i-th edge that
\* original_graph.edges(keys=True, data=True) yields.
ProcessEdge(st, i) ==
    LET e == st.original_graph.edges[i]
    IN  IF HasEdge(st.split_graph, e.u, e.v)
        THEN LET new_node ==
                     SplitNodeName(e.u, e.v, ReverseLen(st.reverse_edge_mapping, e.u, e.v))
                 g1 == AddNode(st.split_graph, new_node)
                 g2 == AddEdge(g1, e.u, new_node, e.data)
                 z  == ZeroFlowData(e.data)
                 g3 == AddEdge(g2, new_node, e.v, z.zero_flow_data)
             IN  [original_graph |-> [st.original_graph EXCEPT !.edges[i].data = z.data],
                  split_graph |-> g3,
                  edge_mapping |->
                      DictSet(DictSet(st.edge_mapping, <<e.u, new_node>>, <<e.u, e.v, e.key>>),
                              <<new_node, e.v>>, <<e.u, e.v, e.key>>),
                  reverse_edge_mapping |->
                      ReverseSet(st.reverse_edge_mapping, e.u, e.v, e.key, <<e.u, new_node>>)]
        ELSE [original_graph |-> st.original_graph,
              split_graph |-> AddEdge(st.split_graph, e.u, e.v, e.data),
              edge_mapping |-> DictSet(st.edge_mapping, <<e.u, e.v>>, <<e.u, e.v, e.key>>),
              reverse_edge_mapping |->
                  ReverseSet(st.reverse_edge_mapping, e.u, e.v, e.key, <<e.u, e.v>>)]

RECURSIVE ProcessEdges(_, _)
ProcessEdges(st, i) ==
    IF i > Len(st.original_graph.edges) THEN st
    ELSE ProcessEdges(ProcessEdge(st, i), i + 1)

\* Lines 32-64.
CreateSplitGraph(G) ==
    ProcessEdges([original_graph |-> G,
                  split_graph |-> [nodes |-> G.nodes, edges |-> EmptyDict],
                  edge_mapping |-> EmptyDict,
                  reverse_edge_mapping |-> EmptyDict],
                 1)

---------------------------------------------------------------------------
(* convert_path_to_original *)

\* self.edge_mapping.get(edge, None) of lines 87 and 125.
EdgeMappingGet(em, edge) == IF edge \in DOMAIN em THEN em[edge] ELSE None

\* The turn with the filter on the source ahead of the lookup.
PathStepFilterFirst(em, u, v, original_path) ==
    IF HasSplitMarker(u)
    THEN [raised |-> FALSE, pair |-> None, original_path |-> original_path]
    ELSE IF <<u, v>> \notin DOMAIN em
         THEN [raised |-> TRUE, pair |-> <<u, v>>, original_path |-> original_path]
         ELSE [raised |-> FALSE, pair |-> None,
               original_path |-> Append(original_path, em[<<u, v>>])]

\* The turn without the filter on the source.
PathStepNoFilter(em, u, v, original_path) ==
    IF <<u, v>> \notin DOMAIN em
    THEN [raised |-> TRUE, pair |-> <<u, v>>, original_path |-> original_path]
    ELSE [raised |-> FALSE, pair |-> None,
          original_path |-> Append(original_path, em[<<u, v>>])]

\* Lines 83-93, one turn of the first loop: the lookup, the raise, then the
\* filter on the source of the split edge.
PathStep(em, u, v, original_path) ==
    LET original_edge == EdgeMappingGet(em, <<u, v>>)
    IN  IF original_edge = None
        THEN [raised |-> TRUE, pair |-> <<u, v>>, original_path |-> original_path]
        ELSE [raised |-> FALSE, pair |-> None,
              original_path |-> IF ~HasSplitMarker(u)
                                THEN Append(original_path, original_edge)
                                ELSE original_path]

\* Lines 82-93: for i in range(len(path) - 1); i counts from 1 here.
RECURSIVE CollectOriginalPath(_, _, _, _)
CollectOriginalPath(em, path, i, original_path) ==
    IF i > Len(path) - 1
    THEN [raised |-> FALSE, pair |-> None, original_path |-> original_path]
    ELSE LET r == PathStep(em, path[i], path[i + 1], original_path)
         IN  IF r.raised THEN r
             ELSE CollectOriginalPath(em, path, i + 1, r.original_path)

\* Line 104: the test of the merge branch on two adjacent entries.
IsSplitPair(e1, e2) == e1[3] = e2[3] /\ HasSplitMarker(e1[2]) /\ e2[1] = e1[2]

\* Lines 97-111: the second loop; merges counts the turns that take the
\* branch of lines 105-108.
RECURSIVE SimplifyPath(_, _, _, _)
SimplifyPath(original_path, i, simplified_path, merges) ==
    IF i > Len(original_path)
    THEN [simplified_path |-> simplified_path, merges |-> merges]
    ELSE IF i + 1 <= Len(original_path) /\ IsSplitPair(original_path[i], original_path[i + 1])
         THEN SimplifyPath(original_path, i + 2,
                           Append(simplified_path,
                                  <<original_path[i][1], original_path[i + 1][2],
                                    original_path[i][3]>>),
                           merges + 1)
         ELSE SimplifyPath(original_path, i + 1,
                           Append(simplified_path, original_path[i]), merges)

\* Lines 70-113. value is what the caller gets: the list, or nothing when
\* the ValueError of line 90 leaves the call; pair is the edge the error
\* names; original_path and merges expose the two loops.
ConvertPathToOriginal(em, path) ==
    LET c == CollectOriginalPath(em, path, 1, <<>>)
    IN  IF c.raised
        THEN [raised |-> "ValueError", pair |-> c.pair, value |-> None,
              original_path |-> c.original_path, merges |-> 0]
        ELSE LET s == SimplifyPath(c.original_path, 1, <<>>, 0)
             IN  [raised |-> "no", pair |-> None, value |-> s.simplified_path,
                  original_path |-> c.original_path, merges |-> s.merges]

---------------------------------------------------------------------------
(* convert_edge_to_original, convert_original_to_split,                    *)
(* get_ignore_split_edges                                                  *)

\* Line 125.
ConvertEdgeToOriginal(em, edge) == EdgeMappingGet(em, edge)

\* The lookup with a subscript in place of the first `in` test: the
\* defaultdict adds the pair it is asked for.
ConvertOriginalToSplitSubscript(rem, edge) ==
    LET u == edge[1]
        v == edge[2]
        key == edge[3]
        inner == IF <<u, v>> \in DOMAIN rem THEN rem[<<u, v>>] ELSE EmptyDict
    IN  [reverse_edge_mapping |-> DictSet(rem, <<u, v>>, inner),
         value |->
            IF key \in DOMAIN inner
            THEN IF HasSplitMarker(inner[key][2])
                 THEN <<<<u, inner[key][2]>>, <<inner[key][2], v>>>>
                 ELSE <<inner[key]>>
            ELSE <<>>]

\* Lines 137-151. The two `in` tests read the defaultdict without adding
\* to it, so the dict after the call is the dict before it. Every node id
\* is a str, so the isinstance test of line 143 is true.
ConvertOriginalToSplit(rem, edge) ==
    LET u == edge[1]
        v == edge[2]
        key == edge[3]
    IN  [reverse_edge_mapping |-> rem,
         value |->
            IF <<u, v>> \in DOMAIN rem
            THEN IF key \in DOMAIN rem[<<u, v>>]
                 THEN LET split_edge == rem[<<u, v>>][key]
                      IN  IF HasSplitMarker(split_edge[2])
                          THEN <<<<u, split_edge[2]>>, <<split_edge[2], v>>>>
                          ELSE <<split_edge>>
                 ELSE <<>>
            ELSE <<>>]

\* Lines 159-171.
GetIgnoreSplitEdges(g, edges_to_ignore) ==
    edges_to_ignore \cup {edge \in DOMAIN g.edges : HasSplitMarker(edge[1])}

---------------------------------------------------------------------------
(* The object *)

NoCall == [op |-> "none"]

\* The arguments the callers try: node sequences without a repeated node,
\* pairs and triples of nodes, small sets of split edges.
PathInputs(nodes) ==
    UNION {{p \in [1..n -> nodes] : \A i, j \in 1..n : i # j => p[i] # p[j]} :
           n \in 0..MaxPathLen}

EdgeInputs(nodes) == nodes \X nodes

OriginalEdgeInputs(nodes) == nodes \X nodes \X (0..(MaxEdges - 1))

IgnoreInputs(edges) == {S \in SUBSET edges : Cardinality(S) <= MaxIgnore}

Init ==
    /\ original_graph \in InputGraphs
    /\ split_graph = EmptyGraph
    /\ edge_mapping = EmptyDict
    /\ reverse_edge_mapping = EmptyDict
    /\ phase = "new"
    /\ call = NoCall
    /\ ret = NoCall

\* __init__, lines 22-27.
Construct ==
    /\ phase = "new"
    /\ LET st == CreateSplitGraph(original_graph)
       IN  /\ original_graph' = st.original_graph
           /\ split_graph' = st.split_graph
           /\ edge_mapping' = st.edge_mapping
           /\ reverse_edge_mapping' = st.reverse_edge_mapping
    /\ phase' = "built"
    /\ UNCHANGED <<call, ret>>

\* get_digraph, lines 66-68.
GetDigraph ==
    /\ phase = "built"
    /\ call' = [op |-> "get_digraph"]
    /\ ret' = [digraph |-> split_graph]
    /\ phase' = "returned"
    /\ UNCHANGED <<original_graph, split_graph, edge_mapping, reverse_edge_mapping>>

\* convert_path_to_original(path), lines 70-113.
ConvertPath ==
    /\ phase = "built"
    /\ \E path \in PathInputs(split_graph.nodes) :
          /\ call' = [op |-> "convert_path_to_original", path |-> path]
          /\ ret' = ConvertPathToOriginal(edge_mapping, path)
    /\ phase' = "returned"
    /\ UNCHANGED <<original_graph, split_graph, edge_mapping, reverse_edge_mapping>>

\* convert_edge_to_original(edge), lines 115-125.
ConvertEdge ==
    /\ phase = "built"
    /\ \E edge \in EdgeInputs(split_graph.nodes) :
          /\ call' = [op |-> "convert_edge_to_original", edge |-> edge]
          /\ ret' = [original_edge |-> ConvertEdgeToOriginal(edge_mapping, edge)]
    /\ phase' = "returned"
    /\ UNCHANGED <<original_graph, split_graph, edge_mapping, reverse_edge_mapping>>

\* convert_original_to_split(edge), lines 127-151.
ConvertOriginal ==
    /\ phase = "built"
    /\ \E edge \in OriginalEdgeInputs(original_graph.nodes) :
          LET r == ConvertOriginalToSplit(reverse_edge_mapping, edge)
          IN  /\ call' = [op |-> "convert_original_to_split", edge |-> edge]
              /\ ret' = [split_edges |-> r.value]
              /\ reverse_edge_mapping' = r.reverse_edge_mapping
    /\ phase' = "returned"
    /\ UNCHANGED <<original_graph, split_graph, edge_mapping>>

\* get_ignore_split_edges(edges_to_ignore), lines 154-171.
GetIgnore ==
    /\ phase = "built"
    /\ \E edges_to_ignore \in IgnoreInputs(DOMAIN split_graph.edges) :
          /\ call' = [op |-> "get_ignore_split_edges", edges_to_ignore |-> edges_to_ignore]
          /\ ret' = [ignore_set |-> GetIgnoreSplitEdges(split_graph, edges_to_ignore)]
    /\ phase' = "returned"
    /\ UNCHANGED <<original_graph, split_graph, edge_mapping, reverse_edge_mapping>>

\* The caller has the result of the call and is free to call again.
Returned ==
    /\ phase = "returned"
    /\ phase' = "built"
    /\ call' = NoCall
    /\ ret' = NoCall
    /\ UNCHANGED <<original_graph, split_graph, edge_mapping, reverse_edge_mapping>>

Next ==
    \/ Construct
    \/ GetDigraph
    \/ ConvertPath
    \/ ConvertEdge
    \/ ConvertOriginal
    \/ GetIgnore
    \/ Returned

Spec == Init /\ [][Next]_vars

---------------------------------------------------------------------------
(* What the construction did, read off the original graph and the reverse  *)
(* mapping and not off the names of the nodes.                             *)

Built == phase # "new"

EdgeId(e) == <<e.u, e.v, e.key>>

OriginalEdgeIds == {EdgeId(original_graph.edges[i]) : i \in 1..Len(original_graph.edges)}

OriginalPairs == {<<id[1], id[2]>> : id \in OriginalEdgeIds}

ParallelEdges(p) == {id \in OriginalEdgeIds : <<id[1], id[2]>> = p}

OriginalData(id) ==
    LET i == CHOOSE j \in 1..Len(original_graph.edges) : EdgeId(original_graph.edges[j]) = id
    IN  original_graph.edges[i].data

\* The entry point line 50 or line 64 recorded for an original edge.
EntryPoint(id) == reverse_edge_mapping[<<id[1], id[2]>>][id[3]][2]

\* The edge went through the branch of lines 43-58: its entry point is a
\* node made for it and not its own target.
WasSplit(id) == EntryPoint(id) # id[2]

SplitNodesOfPair(p) == {EntryPoint(id) : id \in {x \in ParallelEdges(p) : WasSplit(x)}}

SplitNodes == UNION {SplitNodesOfPair(p) : p \in OriginalPairs}

InDegree(n) == Cardinality({e \in DOMAIN split_graph.edges : e[2] = n})

OutDegree(n) == Cardinality({e \in DOMAIN split_graph.edges : e[1] = n})

PathCall == phase = "returned" /\ call.op = "convert_path_to_original"

---------------------------------------------------------------------------
(* C1 *)

\* C1: after construction every original edge e has a non-empty
\* convert_original_to_split(e), and convert_edge_to_original maps every
\* split edge of that list back to e.
C1_RoundTrip ==
    Built =>
        \A e \in OriginalEdgeIds :
            LET split_edges == ConvertOriginalToSplit(reverse_edge_mapping, e).value
            IN  /\ split_edges # <<>>
                /\ \A j \in 1..Len(split_edges) :
                       ConvertEdgeToOriginal(edge_mapping, split_edges[j]) = e

---------------------------------------------------------------------------
(* C2 *)

\* C2: a pair with k >= 1 parallel edges gets exactly k-1 split nodes, each
\* of in-degree 1 and out-degree 1, each different from every original node
\* and from every split node of another pair (those of one pair are k-1
\* different nodes by the count).
C2_SplitNodes ==
    Built =>
        \A p \in OriginalPairs :
            /\ Cardinality(SplitNodesOfPair(p)) = Cardinality(ParallelEdges(p)) - 1
            /\ \A s \in SplitNodesOfPair(p) :
                   /\ InDegree(s) = 1
                   /\ OutDegree(s) = 1
                   /\ s \notin original_graph.nodes
                   /\ \A q \in OriginalPairs \ {p} : s \notin SplitNodesOfPair(q)

---------------------------------------------------------------------------
(* C3 *)

\* The nodes an original edge adds to a path after its source: its target,
\* or its split node and then its target.
HopsOf(id) == IF WasSplit(id) THEN <<EntryPoint(id), id[2]>> ELSE <<id[2]>>

RECURSIVE NodePath(_, _)
NodePath(E, i) ==
    IF i > Len(E) THEN <<>> ELSE HopsOf(E[i]) \o NodePath(E, i + 1)

Connected(E) == \A i \in 1..(Len(E) - 1) : E[i][2] = E[i + 1][1]

\* The sequences of n >= 1 original edges, each leaving the node the one
\* before it enters, whose representation in the split graph is path.
TraversedBy(path) ==
    UNION {{E \in [1..n -> OriginalEdgeIds] :
                Connected(E) /\ <<E[1][1]>> \o NodePath(E, 1) = path} :
           n \in 1..(MaxPathLen - 1)}

\* C3: a path that is the representation of n original edges is converted
\* to exactly these n edge ids, in path order.
C3_OneEntryPerEdge ==
    PathCall =>
        \A E \in TraversedBy(call.path) : ret.raised = "no" /\ ret.value = E

---------------------------------------------------------------------------
(* C4 *)

\* C4: for the split node s of an original edge (u,v,key), the edge s->v has
\* flow 0 and the edge u->s has the attribute dict of the original edge.
C4_ZeroFlowExit ==
    Built =>
        \A id \in {x \in OriginalEdgeIds : WasSplit(x)} :
            /\ split_graph.edges[<<EntryPoint(id), id[2]>>].flow = 0
            /\ split_graph.edges[<<id[1], EntryPoint(id)>>] = OriginalData(id)

---------------------------------------------------------------------------
(* C5 *)

\* The scenario: (A,B,k0,flow=5), (A,B,k1,flow=3), (B,C,k0,flow=5), in this
\* order, k0 = 0 and k1 = 1.
ScenarioInput ==
    [i \in 1..Len(original_graph.edges) |->
        <<EdgeId(original_graph.edges[i]), original_graph.edges[i].data.flow>>]
    = << <<<<NodeA, NodeB, 0>>, 5>>, <<<<NodeA, NodeB, 1>>, 3>>, <<<<NodeB, NodeC, 0>>, 5>> >>

\* The split graph of the scenario when s is the one split node: its nodes,
\* the flow of every edge, and the original edge of A->B and of A->s.
ScenarioSplitGraph(s) ==
    /\ split_graph.nodes = {NodeA, NodeB, NodeC, s}
    /\ [e \in DOMAIN split_graph.edges |-> split_graph.edges[e].flow]
           = (<<NodeA, NodeB>> :> 5 @@ <<NodeA, s>> :> 3 @@ <<s, NodeB>> :> 0
              @@ <<NodeB, NodeC>> :> 5)
    /\ edge_mapping[<<NodeA, NodeB>>] = <<NodeA, NodeB, 0>>
    /\ edge_mapping[<<NodeA, s>>] = <<NodeA, NodeB, 1>>

\* C5 as claimed: the split node of the scenario is named A_B_split_0.
C5_ScenarioOrdinal0 ==
    (Built /\ ScenarioInput) => ScenarioSplitGraph(SplitNodeName(NodeA, NodeB, 0))

\* C5 as amended: the split graph of the scenario is as claimed but for the
\* name of the split node, which is A_B_split_1, the ordinal being the
\* number of edges the pair has in the reverse mapping when the node is made.
C5_ScenarioOrdinal1 ==
    (Built /\ ScenarioInput) => ScenarioSplitGraph(NodeAB1)

C5_Witness == Built /\ ScenarioInput /\ NodeAB1 \in split_graph.nodes

---------------------------------------------------------------------------
(* C6 *)

\* C6: get_ignore_split_edges(S) is S with every split-graph edge whose
\* source is a split node; it holds S, and a second application adds
\* nothing.
C6_IgnoreUnion ==
    (phase = "returned" /\ call.op = "get_ignore_split_edges") =>
        /\ ret.ignore_set = call.edges_to_ignore
                         \cup {e \in DOMAIN split_graph.edges : e[1] \in SplitNodes}
        /\ call.edges_to_ignore \subseteq ret.ignore_set
        /\ GetIgnoreSplitEdges(split_graph, ret.ignore_set) = ret.ignore_set

---------------------------------------------------------------------------
(* C7 *)

\* The positions of path whose pair has no entry in the forward mapping.
Unmapped(path) ==
    {i \in 1..(Len(path) - 1) : <<path[i], path[i + 1]>> \notin DOMAIN edge_mapping}

FirstUnmapped(path) == CHOOSE i \in Unmapped(path) : \A j \in Unmapped(path) : i <= j

\* C7: convert_path_to_original raises the ValueError exactly when a pair of
\* the path has no entry in the forward mapping, whatever the source of the
\* pair; the error names the first such pair and no list is returned.
C7_BrokenMapping ==
    PathCall =>
        /\ (ret.raised = "ValueError") <=> (Unmapped(call.path) # {})
        /\ Unmapped(call.path) # {} =>
               /\ ret.pair = <<call.path[FirstUnmapped(call.path)],
                               call.path[FirstUnmapped(call.path) + 1]>>
               /\ ret.value = None

\* A call that fails on a pair whose source is a split node, after a pair
\* that has an entry.
C7_Witness ==
    /\ PathCall
    /\ ret.raised = "ValueError"
    /\ ret.pair[1] \in SplitNodes
    /\ FirstUnmapped(call.path) > 1

---------------------------------------------------------------------------
(* C8 *)

\* C8: convert_edge_to_original answers None for a pair that is no edge of
\* the split graph; convert_original_to_split answers the empty list for an
\* edge the reverse mapping does not record, the chain through the split
\* node for a recorded edge that was split and the single edge (u,v) for a
\* recorded edge that was not.
C8_Lookups ==
    /\ (phase = "returned" /\ call.op = "convert_edge_to_original") =>
           (call.edge \notin DOMAIN split_graph.edges => ret.original_edge = None)
    /\ (phase = "returned" /\ call.op = "convert_original_to_split") =>
           LET e == call.edge
           IN  IF e \notin OriginalEdgeIds THEN ret.split_edges = <<>>
               ELSE IF WasSplit(e)
                    THEN ret.split_edges = <<<<e[1], EntryPoint(e)>>, <<EntryPoint(e), e[2]>>>>
                    ELSE ret.split_edges = <<<<e[1], e[2]>>>>

---------------------------------------------------------------------------
(* C9 *)

\* What a call returns on the structures as the construction leaves them.
FreshResult(c) ==
    LET st == CreateSplitGraph(original_graph)
    IN  CASE c.op = "get_digraph" -> [digraph |-> st.split_graph]
          [] c.op = "convert_path_to_original" ->
                 ConvertPathToOriginal(st.edge_mapping, c.path)
          [] c.op = "convert_edge_to_original" ->
                 [original_edge |-> ConvertEdgeToOriginal(st.edge_mapping, c.edge)]
          [] c.op = "convert_original_to_split" ->
                 [split_edges |-> ConvertOriginalToSplit(st.reverse_edge_mapping, c.edge).value]
          [] c.op = "get_ignore_split_edges" ->
                 [ignore_set |-> GetIgnoreSplitEdges(st.split_graph, c.edges_to_ignore)]

\* C9: no step changes the original graph; after the construction no step
\* changes the split graph, the forward mapping or the reverse mapping, its
\* set of pairs included; and every call returns what the same call returns
\* right after the construction.
C9_Immutable ==
    /\ [][/\ original_graph' = original_graph
          /\ Built => UNCHANGED <<split_graph, edge_mapping, reverse_edge_mapping>>]_vars
    /\ [](phase = "returned" => ret = FreshResult(call))

\* A lookup of a pair that the reverse mapping does not record, on a graph
\* that has a split edge, has returned.
C9_Witness ==
    /\ phase = "returned"
    /\ call.op = "convert_original_to_split"
    /\ <<call.edge[1], call.edge[2]>> \notin DOMAIN reverse_edge_mapping
    /\ SplitNodes # {}

---------------------------------------------------------------------------
(* C10 *)

\* The list the source filter alone produces: the original edge of every
\* pair of the path whose source does not hold the marker.
RECURSIVE FilterOnly(_, _)
FilterOnly(path, i) ==
    IF i > Len(path) - 1 THEN <<>>
    ELSE (IF HasSplitMarker(path[i]) THEN <<>> ELSE <<edge_mapping[<<path[i], path[i + 1]>>]>>)
         \o FilterOnly(path, i + 1)

\* C10: on a call that does not fail no two adjacent entries of the
\* filtered list have equal keys, a first target that holds the marker and
\* a second source equal to it; the merge branch is never taken and the
\* call returns the filtered list.
C10_MergeUnreachable ==
    (PathCall /\ ret.raised = "no") =>
        /\ \A i \in 1..(Len(ret.original_path) - 1) :
               LET e1 == ret.original_path[i]
                   e2 == ret.original_path[i + 1]
               IN  ~(e1[3] = e2[3] /\ HasSplitMarker(e1[2]) /\ e2[1] = e1[2])
        /\ ret.merges = 0
        /\ ret.value = FilterOnly(call.path, 1)

\* A call has converted a path through both halves of a split edge and
\* through a further edge of the same key.
C10_Witness ==
    /\ PathCall
    /\ ret.raised = "no"
    /\ \E i \in 1..(Len(call.path) - 1) : call.path[i] \in SplitNodes
    /\ Len(ret.value) >= 2

====
